---- MODULE Spec2Model ----
(***************************************************************************)
(* Model of caffe2/core/operator_gradient.h: GradientWrapper,              *)
(* GradientOpsMeta, GradientMakerBase and its built-in variants.           *)
(*                                                                         *)
(* A C++ string is a sequence of one-character strings, so that suffixing, *)
(* find and substr are computed on characters.  An index i of the source   *)
(* is 0-based; the sequences of the model are 1-based, hence the i + 1.    *)
(***************************************************************************)
EXTENDS Integers, Sequences, FiniteSets

VARIABLES def, variant, schema, g_output, g_input, pc, last, prev, first, meta, m

vars == <<def, variant, schema, g_output, g_input, pc, last, prev, first, meta, m>>

----------------------------------------------------------------------------
(* Bounds of the explored inputs *)

MaxInputs == 1
MaxOutputs == 1
MaxGradOut == 2
MaxDefs == 2
MaxPieces == 3
MaxMatchOutputs == 2

----------------------------------------------------------------------------
(* Strings *)

SeqsUpTo(S, n) == UNION {[1..k -> S] : k \in 0..n}

Range(s) == {s[k] : k \in DOMAIN s}

Min(S) == CHOOSE x \in S : \A y \in S : x <= y

\* std::string::npos, the result of a find that finds nothing
npos == -1

\* std::string::find(pat): the 0-based position of the FIRST occurrence
Find(s, pat) ==
  LET hits == {k \in 0..(Len(s) - Len(pat)) : SubSeq(s, k + 1, k + Len(pat)) = pat}
  IN  IF hits = {} THEN npos ELSE Min(hits)

\* std::string::substr(pos, n)
Substr(s, pos, n) == SubSeq(s, pos + 1, pos + n)

GradientName(name) == name \o <<"_", "g", "r", "a", "d">>

GradientSliceIndices(name) ==
  name \o <<"_", "g", "r", "a", "d", "_", "i", "n", "d", "i", "c", "e", "s">>

\* GradientSliceValues with the fault of appending the indices suffix
GradientSliceValues_AsIndices(name) ==
  name \o <<"_", "g", "r", "a", "d", "_", "i", "n", "d", "i", "c", "e", "s">>

GradientSliceValues(name) ==
  name \o <<"_", "g", "r", "a", "d", "_", "v", "a", "l", "u", "e", "s">>

IsGradientBlob(name) ==
  Len(name) > 5 /\ Find(name, <<"_", "g", "r", "a", "d">>) = Len(name) - 5

\* CaffeMap<string, string> as the set of its <<key, value>> pairs
MatchGradsToParams(op) ==
  {<<out, Substr(out, 0, Len(out) - 5)>> : out \in {o \in Range(op.output) : IsGradientBlob(o)}}

----------------------------------------------------------------------------
(* GradientWrapper *)

GradientWrapper(d, i, v) == [dense_ |-> d, indices_ |-> i, values_ |-> v]

EmptyWrapper == GradientWrapper(<<>>, <<>>, <<>>)

IsDense(w) == Len(w.dense_) # 0

IsSparse(w) == Len(w.indices_) # 0 \/ Len(w.values_) # 0

IsEmpty(w) == ~IsDense(w) /\ ~IsSparse(w)

----------------------------------------------------------------------------
(* Inputs of the exploration *)

InputNames == {<<"X">>, <<"W">>}
OutputNames == {<<"Y">>}
\* names a generator passes to SetDense / SetSparse; the empty string is a string
CustomNames == {<<>>, <<"a">>}
\* wrappers a caller supplies for the outputs: the fields are public
OutWrappers ==
  { EmptyWrapper,
    GradientWrapper(<<"d", "Y">>, <<>>, <<>>),
    GradientWrapper(<<>>, <<"d", "I">>, <<"d", "V">>),
    GradientWrapper(<<>>, <<"d", "I">>, <<>>),
    GradientWrapper(<<"d", "Y">>, <<"d", "I">>, <<"d", "V">>) }

Variants ==
  {"Custom", "Base", "NoGradient", "ThrowInTheTowelIfGradientIsCalled",
   "GradientNotImplementedYet"}

\* what OpSchemaRegistry::Schema(def_.type()) and schema->Verify(def_) answer
SchemaOutcomes == {"absent", "passes", "fails"}

OperatorDef(in, out) == [type |-> "Op", input |-> in, output |-> out]

Call(op, i, st, ret, w) == [op |-> op, idx |-> i, status |-> st, ret |-> ret, wrap |-> w]

NoCall == Call("none", 0, "ok", <<>>, EmptyWrapper)

\* what is kept of the call before the last one: whether it was a GI that succeeded,
\* and on which slot
Brief(c) ==
  IF c.op = "GI" /\ c.status = "ok" THEN [op |-> "GI", idx |-> c.idx]
  ELSE [op |-> "other", idx |-> 0]

NoMeta == [valid |-> FALSE, ops_ |-> <<>>, g_input_ |-> <<>>]

----------------------------------------------------------------------------
(* GradientMakerBase *)

\* the constructor's g_input_(def.input_size())
NewGInput(d) == [k \in 1..Len(d.input) |-> EmptyWrapper]

\* vector::at(i) throws unless 0 <= i < size (a negative int becomes a huge size_t)
InRange(i, v) == 0 <= i /\ i < Len(v)

Result(st, ret, g) == [status |-> st, ret |-> ret, g |-> g]

I(i) ==
  IF ~InRange(i, def.input) THEN Result("out_of_range", <<>>, g_input)
  ELSE Result("ok", def.input[i + 1], g_input)

O(i) ==
  IF ~InRange(i, def.output) THEN Result("out_of_range", <<>>, g_input)
  ELSE Result("ok", def.output[i + 1], g_input)

GI(i) ==
  IF ~InRange(i, g_input) THEN Result("out_of_range", <<>>, g_input)
  ELSE IF IsSparse(g_input[i + 1]) THEN Result("conflict", <<>>, g_input)
  ELSE Result("ok", GradientName(def.input[i + 1]),
              [g_input EXCEPT ![i + 1].dense_ = GradientName(def.input[i + 1])])

GI_I(i) ==
  IF ~InRange(i, g_input) THEN Result("out_of_range", <<>>, g_input)
  ELSE IF IsDense(g_input[i + 1]) THEN Result("conflict", <<>>, g_input)
  ELSE Result("ok", GradientSliceIndices(def.input[i + 1]),
              [g_input EXCEPT ![i + 1].indices_ = GradientSliceIndices(def.input[i + 1])])

\* GI_V with the fault of an enforce that tests IsSparse instead of IsDense
GI_V_ChecksSparse(i) ==
  IF ~InRange(i, g_input) THEN Result("out_of_range", <<>>, g_input)
  ELSE IF IsSparse(g_input[i + 1]) THEN Result("conflict", <<>>, g_input)
  ELSE Result("ok", GradientSliceValues(def.input[i + 1]),
              [g_input EXCEPT ![i + 1].values_ = GradientSliceValues(def.input[i + 1])])

GI_V(i) ==
  IF ~InRange(i, g_input) THEN Result("out_of_range", <<>>, g_input)
  ELSE IF IsDense(g_input[i + 1]) THEN Result("conflict", <<>>, g_input)
  ELSE Result("ok", GradientSliceValues(def.input[i + 1]),
              [g_input EXCEPT ![i + 1].values_ = GradientSliceValues(def.input[i + 1])])

\* SetDense with the fault of a missing enforce
SetDense_Unchecked(i, name) ==
  IF ~InRange(i, g_input) THEN Result("out_of_range", <<>>, g_input)
  ELSE Result("ok", <<>>, [g_input EXCEPT ![i + 1].dense_ = name])

SetDense(i, name) ==
  IF ~InRange(i, g_input) THEN Result("out_of_range", <<>>, g_input)
  ELSE IF IsSparse(g_input[i + 1]) THEN Result("conflict", <<>>, g_input)
  ELSE Result("ok", <<>>, [g_input EXCEPT ![i + 1].dense_ = name])

SetSparse(i, indices, values) ==
  IF ~InRange(i, g_input) THEN Result("out_of_range", <<>>, g_input)
  ELSE IF IsDense(g_input[i + 1]) THEN Result("conflict", <<>>, g_input)
  ELSE Result("ok", <<>>,
              [g_input EXCEPT ![i + 1].indices_ = indices, ![i + 1].values_ = values])

\* The results of GO, GO_I and GO_V are sets: the message of a failed enforce reads
\* def_.output(i), and for an index that g_output_ has and def_.output() has not this
\* read is out of the repeated field's bounds (undefined behaviour): the enforce
\* failure is raised with a garbage name, or the process dies.
OutputRead(i, reason) ==
  IF InRange(i, def.output) THEN {Result(reason, <<>>, g_input)}
  ELSE {Result(reason, <<>>, g_input), Result("undefined", <<>>, g_input)}

\* GO with the fault of saying "is not provided!" on every failure
GO_AlwaysNotProvided(i) ==
  IF ~InRange(i, g_output) THEN {Result("out_of_range", <<>>, g_input)}
  ELSE IF IsDense(g_output[i + 1]) THEN {Result("ok", g_output[i + 1].dense_, g_input)}
  ELSE OutputRead(i, "not_provided")

GO(i) ==
  IF ~InRange(i, g_output) THEN {Result("out_of_range", <<>>, g_input)}
  ELSE IF IsDense(g_output[i + 1]) THEN {Result("ok", g_output[i + 1].dense_, g_input)}
  ELSE OutputRead(i, IF IsSparse(g_output[i + 1]) THEN "is_sparse" ELSE "not_provided")

GO_I(i) ==
  IF ~InRange(i, g_output) THEN {Result("out_of_range", <<>>, g_input)}
  ELSE IF IsSparse(g_output[i + 1]) THEN {Result("ok", g_output[i + 1].indices_, g_input)}
  ELSE OutputRead(i, IF IsDense(g_output[i + 1]) THEN "is_dense" ELSE "not_provided")

GO_V(i) ==
  IF ~InRange(i, g_output) THEN {Result("out_of_range", <<>>, g_input)}
  ELSE IF IsSparse(g_output[i + 1]) THEN {Result("ok", g_output[i + 1].values_, g_input)}
  ELSE OutputRead(i, IF IsDense(g_output[i + 1]) THEN "is_dense" ELSE "not_provided")

GradOut(i) ==
  IF ~InRange(i, g_output) THEN [status |-> "out_of_range", wrap |-> EmptyWrapper]
  ELSE [status |-> "ok", wrap |-> g_output[i + 1]]

\* VerifyOp returns normally iff no schema is registered or the schema verifies def_
VerifyOp == schema # "fails"

\* the loop of Get with the fault of iterating over copies (auto opdef, not auto& opdef)
MarkGradientOps_OnCopies(new_defs) == new_defs

\* the loop of Get: opdef.set_is_gradient_op(true) on every produced definition
MarkGradientOps(new_defs) ==
  [k \in DOMAIN new_defs |-> [new_defs[k] EXCEPT !.is_gradient_op = TRUE]]

GradientOpsMeta(ops, v) == [valid |-> TRUE, ops_ |-> ops, g_input_ |-> v]

\* Get with the fault of returning only the wrappers that received a gradient
GetResult_DropEmpty(new_defs) ==
  GradientOpsMeta([k \in DOMAIN new_defs |-> [new_defs[k] EXCEPT !.is_gradient_op = TRUE]],
                  SelectSeq(g_input, LAMBDA w : ~IsEmpty(w)))

\* what the base Get returns once GetGradientDefs has returned new_defs
GetResult(new_defs) == GradientOpsMeta(MarkGradientOps(new_defs), g_input)

\* NoGradient with the fault of producing a definition
NoGradient_GetGradientDefs_NonEmpty == <<[type |-> "OpGradient", is_gradient_op |-> FALSE]>>

NoGradient_GetGradientDefs == <<>>

\* the definition lists a generator (an override of GetGradientDefs) may produce
GenDefs == SeqsUpTo([type : {"OpGradient"}, is_gradient_op : BOOLEAN], MaxDefs)

----------------------------------------------------------------------------
(* State machine of one Gradient Maker instance *)

InputLists == SeqsUpTo(InputNames, MaxInputs)

Fresh(d, gout) ==
  /\ def = d
  /\ g_output = gout
  /\ g_input = NewGInput(d)
  /\ variant \in Variants
  /\ schema \in SchemaOutcomes
  /\ pc = "constructed"
  /\ last = NoCall
  /\ prev = Brief(NoCall)
  /\ first = [k \in 1..Len(d.input) |-> "none"]
  /\ meta = NoMeta
  /\ m = {}

\* makers over every input list, one output with a dense gradient
Init ==
  \E in \in InputLists :
    Fresh(OperatorDef(in, <<(<<"Y">>)>>), <<GradientWrapper(<<"d", "Y">>, <<>>, <<>>)>>)

\* makers of an operator without inputs, over every output list and every supplied
\* output-gradient list (of any length)
InitOut ==
  \E out \in SeqsUpTo(OutputNames, MaxOutputs), gout \in SeqsUpTo(OutWrappers, MaxGradOut) :
    Fresh(OperatorDef(<<>>, out), gout)

InIdx == -1..Len(def.input)

OutIdx == -1..(IF Len(def.output) > Len(g_output) THEN Len(def.output) ELSE Len(g_output))

\* the representation in which each slot first became non-empty (history)
FirstAfter(g) ==
  [k \in DOMAIN first |->
     IF first[k] # "none" THEN first[k]
     ELSE IF IsDense(g[k]) THEN "dense"
     ELSE IF IsSparse(g[k]) THEN "sparse"
     ELSE "none"]

Finish(now, newmeta, c) ==
  /\ pc' = now
  /\ meta' = newmeta
  /\ last' = c
  /\ prev' = Brief(last)
  /\ UNCHANGED <<def, variant, schema, g_output, g_input, first, m>>

Fail(reason) == Finish("failed", NoMeta, Call("Get", 0, reason, <<>>, EmptyWrapper))

Get ==
  /\ pc = "constructed"
  /\ IF variant = "ThrowInTheTowelIfGradientIsCalled" THEN Fail("should_not_call")
     ELSE IF variant = "GradientNotImplementedYet" THEN Fail("not_implemented_yet")
     ELSE IF ~VerifyOp THEN Fail("schema_violation")
     ELSE IF variant = "Base" THEN Fail("not_implemented")
     ELSE IF variant = "NoGradient"
       THEN Finish("returned", GetResult(NoGradient_GetGradientDefs),
                   Call("Get", 0, "ok", <<>>, EmptyWrapper))
     ELSE Finish("generating", NoMeta, Call("VerifyOp", 0, "ok", <<>>, EmptyWrapper))

\* the generator returns its definitions and Get wraps them
GetReturn ==
  /\ pc = "generating"
  /\ \E new_defs \in GenDefs :
       Finish("returned", GetResult(new_defs), Call("Get", 0, "ok", <<>>, EmptyWrapper))

\* the failure of an accessor leaves the generator and Get
GetThrow ==
  /\ pc = "generating"
  /\ last.status # "ok"
  /\ Fail(last.status)

Accessed(op, i, r) ==
  /\ pc = "generating"
  /\ g_input' = r.g
  /\ first' = FirstAfter(r.g)
  /\ last' = Call(op, i, r.status, r.ret, EmptyWrapper)
  /\ prev' = Brief(last)
  /\ UNCHANGED <<def, variant, schema, g_output, pc, meta, m>>

Call_I == \E i \in InIdx : Accessed("I", i, I(i))

Call_O == \E i \in OutIdx : Accessed("O", i, O(i))

Call_GI == \E i \in InIdx : Accessed("GI", i, GI(i))

Call_GI_I == \E i \in InIdx : Accessed("GI_I", i, GI_I(i))

Call_GI_V == \E i \in InIdx : Accessed("GI_V", i, GI_V(i))

Call_SetDense == \E i \in InIdx, name \in CustomNames : Accessed("SetDense", i, SetDense(i, name))

Call_SetSparse ==
  \E i \in InIdx, indices \in CustomNames, values \in CustomNames :
    Accessed("SetSparse", i, SetSparse(i, indices, values))

Call_GO == \E i \in OutIdx : \E r \in GO(i) : Accessed("GO", i, r)

Call_GO_I == \E i \in OutIdx : \E r \in GO_I(i) : Accessed("GO_I", i, r)

Call_GO_V == \E i \in OutIdx : \E r \in GO_V(i) : Accessed("GO_V", i, r)

Call_GradOut ==
  /\ pc = "generating"
  /\ \E i \in OutIdx :
       last' = Call("GradOut", i, GradOut(i).status, <<>>, GradOut(i).wrap)
  /\ prev' = Brief(last)
  /\ UNCHANGED <<def, variant, schema, g_output, g_input, pc, first, meta, m>>

Next ==
  \/ Get
  \/ GetReturn
  \/ GetThrow
  \/ Call_I
  \/ Call_O
  \/ Call_GI
  \/ Call_GI_I
  \/ Call_GI_V
  \/ Call_SetDense
  \/ Call_SetSparse
  \/ Call_GO
  \/ Call_GO_I
  \/ Call_GO_V
  \/ Call_GradOut

Spec == Init /\ [][Next]_vars

SpecOut == InitOut /\ [][Next]_vars

----------------------------------------------------------------------------
(* The static MatchGradsToParams, applied to operator definitions *)

Pieces == {<<"W">>, <<"b">>, <<"_", "g", "r", "a", "d">>}

RECURSIVE Concat(_)
Concat(ss) == IF ss = <<>> THEN <<>> ELSE Head(ss) \o Concat(Tail(ss))

MatchNames == {Concat(ps) : ps \in SeqsUpTo(Pieces, MaxPieces)}

InitMatch ==
  /\ def \in {OperatorDef(<<>>, out) : out \in SeqsUpTo(MatchNames, MaxMatchOutputs)}
  /\ g_output = <<>>
  /\ g_input = <<>>
  /\ variant = "Base"
  /\ schema = "absent"
  /\ pc = "static"
  /\ last = NoCall
  /\ prev = Brief(NoCall)
  /\ first = <<>>
  /\ meta = NoMeta
  /\ m = {}

Call_MatchGradsToParams ==
  /\ pc = "static"
  /\ last.op = "none"
  /\ m' = MatchGradsToParams(def)
  /\ last' = Call("MatchGradsToParams", 0, "ok", <<>>, EmptyWrapper)
  /\ prev' = Brief(last)
  /\ UNCHANGED <<def, variant, schema, g_output, g_input, pc, first, meta>>

NextMatch == Call_MatchGradsToParams

SpecMatch == InitMatch /\ [][NextMatch]_vars

----------------------------------------------------------------------------
(* Properties *)

Slot(i) == g_input[i + 1]

InputAccessors == {"I", "GI", "GI_I", "GI_V", "SetDense", "SetSparse"}

OutputAccessors == {"O", "GO", "GO_I", "GO_V", "GradOut"}

EndsWith(s, suf) == Len(s) >= Len(suf) /\ SubSeq(s, Len(s) - Len(suf) + 1, Len(s)) = suf

\* C1: whatever GI, GI_I, GI_V, SetDense and SetSparse calls were made (failed ones
\* included, any names), no input slot is dense and sparse at the same time.
NeverDenseAndSparse ==
  \A k \in DOMAIN g_input : ~(IsDense(g_input[k]) /\ IsSparse(g_input[k]))

\* a SetDense on a sparse slot has just been refused
SetDenseRefusedOnSparse ==
  /\ last.op = "SetDense"
  /\ last.status = "conflict"
  /\ IsSparse(Slot(last.idx))

\* C2: GI(i) followed by GI_I(i) or GI_V(i) makes the second call fail with the
\* representation conflict, and slot i is then still dense with the name GI wrote,
\* its indices and values unset.
SparseAfterGIFails ==
  (prev.op = "GI" /\ last.op \in {"GI_I", "GI_V"} /\ last.idx = prev.idx) =>
    /\ last.status = "conflict"
    /\ Slot(last.idx) =
         GradientWrapper(def.input[last.idx + 1] \o <<"_", "g", "r", "a", "d">>, <<>>, <<>>)

\* GI_V(i) has just been refused right after a successful GI(i)
GIThenGIVRefused ==
  /\ prev.op = "GI"
  /\ last.op = "GI_V"
  /\ last.idx = prev.idx
  /\ last.status = "conflict"

\* C3: an accessor called with an index outside the forward input count (input
\* accessors) or the forward output count (output accessors) fails, whatever the
\* length of the supplied output-gradient list.
OutOfRangeIndexFails ==
  ( \/ (last.op \in InputAccessors /\ ~InRange(last.idx, def.input))
    \/ (last.op \in OutputAccessors /\ ~InRange(last.idx, def.output)) )
  => last.status # "ok"

\* C4: the keys of MatchGradsToParams are exactly the outputs that end with "_grad"
\* and are longer than it, each mapped to the name without the trailing "_grad".
MatchKeysAreGradSuffixed ==
  last.op = "MatchGradsToParams" =>
    m = { <<out, SubSeq(out, 1, Len(out) - 5)>> :
            out \in {o \in Range(def.output) :
                       Len(o) > 5 /\ EndsWith(o, <<"_", "g", "r", "a", "d">>)} }

NoGradientMeta ==
  /\ pc = "returned"
  /\ meta.valid
  /\ meta.ops_ = <<>>
  /\ Len(meta.g_input_) = Len(def.input)
  /\ \A k \in DOMAIN meta.g_input_ : IsEmpty(meta.g_input_[k])

\* C5 as stated: for any definition, Get of NoGradient returns a meta with no
\* backward definition and an all-empty input-gradient list.
NoGradientAlwaysReturnsEmpty ==
  (variant = "NoGradient" /\ last.op = "Get") => NoGradientMeta

\* C5 amended: Get of NoGradient returns that meta for every definition that has no
\* registered schema or passes it, and fails with the schema violation, returning
\* nothing, for a definition that fails its schema.
NoGradientReturnsEmptyIfVerified ==
  (variant = "NoGradient" /\ last.op = "Get") =>
    IF schema = "fails"
      THEN pc = "failed" /\ last.status = "schema_violation" /\ ~meta.valid
      ELSE last.status = "ok" /\ NoGradientMeta

\* NoGradient has returned for an operator that has an input
NoGradientReturned ==
  /\ variant = "NoGradient"
  /\ pc = "returned"
  /\ meta.valid
  /\ Len(def.input) >= 1

\* C6: for a valid output index, GO returns the dense name when the supplied wrapper
\* is dense and fails otherwise; the failure says "sparse" when the wrapper is sparse
\* and says "not provided" only when the wrapper is empty.
GOReportsRepresentation ==
  (last.op = "GO" /\ InRange(last.idx, def.output)) =>
    LET i == last.idx
        supplied == InRange(i, g_output)
    IN  IF supplied /\ IsDense(g_output[i + 1])
          THEN last.status = "ok" /\ last.ret = g_output[i + 1].dense_
          ELSE /\ last.status # "ok"
               /\ (supplied /\ IsSparse(g_output[i + 1])) => last.status = "is_sparse"
               /\ last.status = "not_provided" => (supplied /\ IsEmpty(g_output[i + 1]))

\* GO has just failed on a sparse output gradient
GOFailedOnSparse ==
  /\ last.op = "GO"
  /\ InRange(last.idx, def.output)
  /\ last.status = "is_sparse"
  /\ ~IsDense(g_output[last.idx + 1])

\* C7: on a valid input index whose slot is not in the conflicting representation,
\* GI, GI_I and GI_V succeed, return the name they record in the slot, and that name
\* is the input name followed by "_grad", "_grad_indices", "_grad_values".
GIReturnsRecordedName ==
  InRange(last.idx, def.input) =>
    LET name == def.input[last.idx + 1]
        w == Slot(last.idx)
    IN  /\ (last.op = "GI" /\ ~IsSparse(w)) =>
             /\ last.status = "ok"
             /\ last.ret = w.dense_
             /\ last.ret = name \o <<"_", "g", "r", "a", "d">>
        /\ (last.op = "GI_I" /\ ~IsDense(w)) =>
             /\ last.status = "ok"
             /\ last.ret = w.indices_
             /\ last.ret = name \o <<"_", "g", "r", "a", "d", "_", "i", "n", "d", "i", "c", "e", "s">>
        /\ (last.op = "GI_V" /\ ~IsDense(w)) =>
             /\ last.status = "ok"
             /\ last.ret = w.values_
             /\ last.ret = name \o <<"_", "g", "r", "a", "d", "_", "v", "a", "l", "u", "e", "s">>

\* GI_V on the input "X" has just returned "X_grad_values"
GIVOnXReturned ==
  /\ last.op = "GI_V"
  /\ last.status = "ok"
  /\ def.input[last.idx + 1] = <<"X">>
  /\ last.ret = <<"X", "_", "g", "r", "a", "d", "_", "v", "a", "l", "u", "e", "s">>

\* C8: the input-gradient list of a returned meta has as many entries as the forward
\* operator has inputs, whatever calls the generator made.
MetaAlignedWithInputs ==
  meta.valid => Len(meta.g_input_) = Len(def.input)

\* a generator has returned leaving an input without gradient
ReturnedWithEmptySlot ==
  /\ variant = "Custom"
  /\ meta.valid
  /\ \E k \in DOMAIN meta.g_input_ : IsEmpty(meta.g_input_[k])

\* C9: every backward definition of a returned meta is marked as a gradient operation.
ReturnedDefsAreGradientOps ==
  meta.valid => \A k \in DOMAIN meta.ops_ : meta.ops_[k].is_gradient_op

\* a generator has returned a meta with backward definitions
ReturnedWithDefs ==
  /\ variant = "Custom"
  /\ meta.valid
  /\ Len(meta.ops_) >= 1

\* C10: first writer wins: a slot that was once dense is never sparse later, and a
\* slot that was once sparse is never dense later.
FirstWriterWins ==
  \A k \in DOMAIN g_input :
    /\ first[k] = "dense" => ~IsSparse(g_input[k])
    /\ first[k] = "sparse" => ~IsDense(g_input[k])

====
